---- MODULE Spec2Model ----
(***************************************************************************)
(* aseqdump: the event decoders (dump_event, dump_ump_midi1_event,         *)
(* dump_ump_midi2_event, dump_ump_event) and the poll / drain loop of      *)
(* main(), modelled from seq/aseqdump/aseqdump.c.                          *)
(*                                                                         *)
(* A printed line is a sequence of tokens, one per piece of a printf       *)
(* format: a literal kind label, or a conversion (%d, %x, ...) with the    *)
(* name the format gives it and the value passed for it.                   *)
(***************************************************************************)
EXTENDS Integers, Sequences, FiniteSets, TLC

(* ---------------- bounds of the model ---------------- *)
\* units the source delivers in one run of Spec
MaxUnits == 3
\* units the source buffers at a time
MaxPending == 2
\* hard read errors the source raises in one run
MaxFaults == 1

(* ---------------- <alsa/seq_event.h> event types, as dump_event names them *)
SND_SEQ_EVENT_NOTEON == 6
SND_SEQ_EVENT_NOTEOFF == 7
SND_SEQ_EVENT_KEYPRESS == 8
SND_SEQ_EVENT_CONTROLLER == 10
SND_SEQ_EVENT_PGMCHANGE == 11
SND_SEQ_EVENT_CHANPRESS == 12
SND_SEQ_EVENT_PITCHBEND == 13
SND_SEQ_EVENT_CONTROL14 == 14
SND_SEQ_EVENT_NONREGPARAM == 15
SND_SEQ_EVENT_REGPARAM == 16
SND_SEQ_EVENT_SONGPOS == 20
SND_SEQ_EVENT_SONGSEL == 21
SND_SEQ_EVENT_QFRAME == 22
SND_SEQ_EVENT_TIMESIGN == 23
SND_SEQ_EVENT_KEYSIGN == 24
SND_SEQ_EVENT_START == 30
SND_SEQ_EVENT_CONTINUE == 31
SND_SEQ_EVENT_STOP == 32
SND_SEQ_EVENT_SETPOS_TICK == 33
SND_SEQ_EVENT_SETPOS_TIME == 34
SND_SEQ_EVENT_TEMPO == 35
SND_SEQ_EVENT_CLOCK == 36
SND_SEQ_EVENT_TICK == 37
SND_SEQ_EVENT_QUEUE_SKEW == 38
SND_SEQ_EVENT_TUNE_REQUEST == 40
SND_SEQ_EVENT_RESET == 41
SND_SEQ_EVENT_SENSING == 42
SND_SEQ_EVENT_CLIENT_START == 60
SND_SEQ_EVENT_CLIENT_EXIT == 61
SND_SEQ_EVENT_CLIENT_CHANGE == 62
SND_SEQ_EVENT_PORT_START == 63
SND_SEQ_EVENT_PORT_EXIT == 64
SND_SEQ_EVENT_PORT_CHANGE == 65
SND_SEQ_EVENT_PORT_SUBSCRIBED == 66
SND_SEQ_EVENT_PORT_UNSUBSCRIBED == 67
SND_SEQ_EVENT_SYSEX == 130
SND_SEQ_CLIENT_SYSTEM == 0
SND_SEQ_PORT_SYSTEM_TIMER == 0

(* ---------------- <alsa/ump_msg.h> message types and status codes *)
SND_UMP_MSG_TYPE_MIDI1_CHANNEL_VOICE == 2
SND_UMP_MSG_TYPE_MIDI2_CHANNEL_VOICE == 4
SND_UMP_MSG_PER_NOTE_RCC == 0
SND_UMP_MSG_PER_NOTE_ACC == 1
SND_UMP_MSG_RPN == 2
SND_UMP_MSG_NRPN == 3
SND_UMP_MSG_RELATIVE_RPN == 4
SND_UMP_MSG_RELATIVE_NRPN == 5
SND_UMP_MSG_PER_NOTE_PITCHBEND == 6
SND_UMP_MSG_NOTE_OFF == 8
SND_UMP_MSG_NOTE_ON == 9
SND_UMP_MSG_POLY_PRESSURE == 10
SND_UMP_MSG_CONTROL_CHANGE == 11
SND_UMP_MSG_PROGRAM_CHANGE == 12
SND_UMP_MSG_CHANNEL_PRESSURE == 13
SND_UMP_MSG_PITCHBEND == 14
SND_UMP_MSG_PER_NOTE_MGMT == 15

(* ---------------- printed tokens ---------------- *)
Tok(k, s, n) == [k |-> k, s |-> s, n |-> n]
\* a literal kind label of a format string
Label(s) == Tok("label", s, 0)
\* "%2d" in the Ch column
Chan(n) == Tok("channel", "", n)
\* "name %d"
Dec(s, n) == Tok("dec", s, n)
\* "name 0x%x", "%02X", "%02xh", "%#010x"
Hex(s, n) == Tok("hex", s, n)
\* "Group %2d, "
Group(n) == Tok("group", "Group", n)
\* "\n"
NL == Tok("nl", "", 0)

\* printf("%3d:%-3d ", ev->source.client, ev->source.port)
SourceAddr(ev) == << Tok("client", "", ev.client), Tok("port", "", ev.port) >>

\* the bytes of a system exclusive payload, one "%02X" each, in order
RECURSIVE SysexBytes(_)
SysexBytes(bytes) ==
    IF bytes = << >> THEN << >>
    ELSE << Hex("", Head(bytes)) >> \o SysexBytes(Tail(bytes))

\* START, CONTINUE, STOP: queue control when sent by the system timer
QueueOrPlain(ev, queueLabel, plainLabel) ==
    IF ev.client = SND_SEQ_CLIENT_SYSTEM /\ ev.port = SND_SEQ_PORT_SYSTEM_TIMER
    THEN << Label(queueLabel), Dec("queue", ev.queue), NL >>
    ELSE << Label(plainLabel), NL >>

\* the switch (ev->type) of dump_event
LegacyBody(ev) ==
    CASE ev.type = SND_SEQ_EVENT_NOTEON ->
           IF ev.velocity # 0
           THEN << Label("Note on"), Chan(ev.channel), Dec("note", ev.note),
                   Dec("velocity", ev.velocity), NL >>
           ELSE << Label("Note off"), Chan(ev.channel), Dec("note", ev.note), NL >>
      [] ev.type = SND_SEQ_EVENT_NOTEOFF ->
           << Label("Note off"), Chan(ev.channel), Dec("note", ev.note),
              Dec("velocity", ev.velocity), NL >>
      [] ev.type = SND_SEQ_EVENT_KEYPRESS ->
           << Label("Polyphonic aftertouch"), Chan(ev.channel), Dec("note", ev.note),
              Dec("value", ev.velocity), NL >>
      [] ev.type = SND_SEQ_EVENT_CONTROLLER ->
           << Label("Control change"), Chan(ev.channel), Dec("controller", ev.param),
              Dec("value", ev.value), NL >>
      [] ev.type = SND_SEQ_EVENT_PGMCHANGE ->
           << Label("Program change"), Chan(ev.channel), Dec("program", ev.value), NL >>
      [] ev.type = SND_SEQ_EVENT_CHANPRESS ->
           << Label("Channel aftertouch"), Chan(ev.channel), Dec("value", ev.value), NL >>
      [] ev.type = SND_SEQ_EVENT_PITCHBEND ->
           << Label("Pitch bend"), Chan(ev.channel), Dec("value", ev.value), NL >>
      [] ev.type = SND_SEQ_EVENT_CONTROL14 ->
           << Label("Control change"), Chan(ev.channel), Dec("controller", ev.param),
              Dec("value", ev.value), NL >>
      [] ev.type = SND_SEQ_EVENT_NONREGPARAM ->
           << Label("Non-reg. parameter"), Chan(ev.channel), Dec("parameter", ev.param),
              Dec("value", ev.value), NL >>
      [] ev.type = SND_SEQ_EVENT_REGPARAM ->
           << Label("Reg. parameter"), Chan(ev.channel), Dec("parameter", ev.param),
              Dec("value", ev.value), NL >>
      [] ev.type = SND_SEQ_EVENT_SONGPOS ->
           << Label("Song position pointer"), Dec("value", ev.value), NL >>
      [] ev.type = SND_SEQ_EVENT_SONGSEL ->
           << Label("Song select"), Dec("value", ev.value), NL >>
      [] ev.type = SND_SEQ_EVENT_QFRAME ->
           << Label("MTC quarter frame"), Hex("", ev.value), NL >>
      [] ev.type = SND_SEQ_EVENT_TIMESIGN ->
           << Label("SMF time signature"), Hex("", ev.value), NL >>
      [] ev.type = SND_SEQ_EVENT_KEYSIGN ->
           << Label("SMF key signature"), Hex("", ev.value), NL >>
      [] ev.type = SND_SEQ_EVENT_START -> QueueOrPlain(ev, "Queue start", "Start")
      [] ev.type = SND_SEQ_EVENT_CONTINUE -> QueueOrPlain(ev, "Queue continue", "Continue")
      [] ev.type = SND_SEQ_EVENT_STOP -> QueueOrPlain(ev, "Queue stop", "Stop")
      [] ev.type = SND_SEQ_EVENT_SETPOS_TICK ->
           << Label("Set tick queue pos."), Dec("queue", ev.queue), NL >>
      [] ev.type = SND_SEQ_EVENT_SETPOS_TIME ->
           << Label("Set rt queue pos."), Dec("queue", ev.queue), NL >>
      [] ev.type = SND_SEQ_EVENT_TEMPO ->
           << Label("Set queue tempo"), Dec("queue", ev.queue), NL >>
      [] ev.type = SND_SEQ_EVENT_CLOCK -> << Label("Clock"), NL >>
      [] ev.type = SND_SEQ_EVENT_TICK -> << Label("Tick"), NL >>
      [] ev.type = SND_SEQ_EVENT_QUEUE_SKEW ->
           << Label("Queue timer skew"), Dec("queue", ev.queue), NL >>
      [] ev.type = SND_SEQ_EVENT_TUNE_REQUEST -> << Label("Tune request"), NL >>
      [] ev.type = SND_SEQ_EVENT_RESET -> << Label("Reset"), NL >>
      [] ev.type = SND_SEQ_EVENT_SENSING -> << Label("Active Sensing"), NL >>
      [] ev.type = SND_SEQ_EVENT_CLIENT_START ->
           << Label("Client start"), Dec("client", ev.aclient), NL >>
      [] ev.type = SND_SEQ_EVENT_CLIENT_EXIT ->
           << Label("Client exit"), Dec("client", ev.aclient), NL >>
      [] ev.type = SND_SEQ_EVENT_CLIENT_CHANGE ->
           << Label("Client changed"), Dec("client", ev.aclient), NL >>
      [] ev.type = SND_SEQ_EVENT_PORT_START ->
           << Label("Port start"), Dec("client", ev.aclient), Dec("port", ev.aport), NL >>
      [] ev.type = SND_SEQ_EVENT_PORT_EXIT ->
           << Label("Port exit"), Dec("client", ev.aclient), Dec("port", ev.aport), NL >>
      [] ev.type = SND_SEQ_EVENT_PORT_CHANGE ->
           << Label("Port changed"), Dec("client", ev.aclient), Dec("port", ev.aport), NL >>
      [] ev.type = SND_SEQ_EVENT_PORT_SUBSCRIBED ->
           << Label("Port subscribed"), Dec("client", ev.aclient), Dec("port", ev.aport),
              Dec("dest.client", ev.dclient), Dec("dest.port", ev.dport), NL >>
      [] ev.type = SND_SEQ_EVENT_PORT_UNSUBSCRIBED ->
           << Label("Port unsubscribed"), Dec("client", ev.aclient), Dec("port", ev.aport),
              Dec("dest.client", ev.dclient), Dec("dest.port", ev.dport), NL >>
      [] ev.type = SND_SEQ_EVENT_SYSEX ->
           << Label("System exclusive") >> \o SysexBytes(ev.ext) \o << NL >>
      [] OTHER -> << Label("Event type"), Dec("", ev.type), NL >>

\* dump_event without the velocity-0 special case (a mutant of dump_event)
dump_event_plain_noteon(ev) ==
    SourceAddr(ev) \o
    ( IF ev.type = SND_SEQ_EVENT_NOTEON
      THEN << Label("Note on"), Chan(ev.channel), Dec("note", ev.note),
              Dec("velocity", ev.velocity), NL >>
      ELSE LegacyBody(ev) )

\* dump_event: the source address, then the line of the event's type
dump_event(ev) == SourceAddr(ev) \o LegacyBody(ev)

(* ---------------- UMP words ---------------- *)
\* a | b on non-negative integers
RECURSIVE BitOr(_, _)
BitOr(a, b) ==
    IF a = 0 THEN b
    ELSE IF b = 0 THEN a
    ELSE (IF a % 2 = 1 \/ b % 2 = 1 THEN 1 ELSE 0) + 2 * BitOr(a \div 2, b \div 2)

\* the header fields of the first word: type:4 group:4 status:4 channel:4
snd_ump_msg_type(ump) == (ump[1] \div (2^28)) % 16
snd_ump_msg_group(ump) == (ump[1] \div (2^24)) % 16
snd_ump_msg_status(ump) == (ump[1] \div (2^20)) % 16
snd_ump_msg_channel(ump) == (ump[1] \div (2^16)) % 16
\* the third and fourth byte of the first word
Byte3(ump) == (ump[1] \div 256) % 256
Byte4(ump) == ump[1] % 256
\* the two halves and the four bytes of the second word
Hi16(ump) == ump[2] \div 65536
Lo16(ump) == ump[2] % 65536
W1Byte1(ump) == ump[2] \div (2^24)
W1Byte3(ump) == (ump[2] \div 256) % 256
W1Byte4(ump) == ump[2] % 256

\* the switch (status) of dump_ump_midi1_event; PROGRAM_CHANGE has no break
\* and runs on into the CHANNEL_PRESSURE printf
Midi1Body(ump, status, channel) ==
    CASE status = SND_UMP_MSG_NOTE_OFF ->
           << Label("Note off"), Chan(channel), Dec("note", Byte3(ump)),
              Hex("velocity", Byte4(ump)) >>
      [] status = SND_UMP_MSG_NOTE_ON ->
           << Label("Note on"), Chan(channel), Dec("note", Byte3(ump)),
              Hex("velocity", Byte4(ump)) >>
      [] status = SND_UMP_MSG_POLY_PRESSURE ->
           << Label("Poly pressure"), Chan(channel), Dec("note", Byte3(ump)),
              Hex("value", Byte4(ump)) >>
      [] status = SND_UMP_MSG_CONTROL_CHANGE ->
           << Label("Control change"), Chan(channel), Dec("controller", Byte3(ump)),
              Hex("value", Byte4(ump)) >>
      [] status = SND_UMP_MSG_PROGRAM_CHANGE ->
           << Label("Program change"), Chan(channel), Dec("program", Byte3(ump)),
              Label("Channel pressure"), Chan(channel), Hex("value", Byte3(ump)) >>
      [] status = SND_UMP_MSG_CHANNEL_PRESSURE ->
           << Label("Channel pressure"), Chan(channel), Hex("value", Byte3(ump)) >>
      [] status = SND_UMP_MSG_PITCHBEND ->
           << Label("Pitchbend"), Chan(channel),
              Hex("value", BitOr(Byte4(ump) * 128, Byte3(ump))) >>
      [] OTHER ->
           << Label("UMP MIDI1 event"), Dec("status", status), Dec("channel", channel),
              Hex("", ump[1]) >>

\* dump_ump_midi1_event: the group, the line of the status, the newline
dump_ump_midi1_event(ump) ==
    << Group(snd_ump_msg_group(ump)) >>
    \o Midi1Body(ump, snd_ump_msg_status(ump), snd_ump_msg_channel(ump))
    \o << NL >>

\* the switch (status) of dump_ump_midi2_event; PITCHBEND prints the
\* CHANNEL_PRESSURE format, the default prints status for "channel = %x"
Midi2Body(ump, status, channel) ==
    CASE status = SND_UMP_MSG_PER_NOTE_RCC ->
           << Label("Per-note RCC"), Chan(channel), Dec("note", Byte3(ump)),
              Dec("index", Byte4(ump)), Hex("value", ump[2]) >>
      [] status = SND_UMP_MSG_PER_NOTE_ACC ->
           << Label("Per-note ACC"), Chan(channel), Dec("note", Byte3(ump)),
              Dec("index", Byte4(ump)), Hex("value", ump[2]) >>
      [] status = SND_UMP_MSG_RPN ->
           << Label("RPN"), Chan(channel), Dec("bank", Byte3(ump)),
              Dec("index", Byte4(ump)), Hex("value", ump[2]) >>
      [] status = SND_UMP_MSG_NRPN ->
           << Label("NRPN"), Chan(channel), Dec("bank", Byte3(ump)),
              Dec("index", Byte4(ump)), Hex("value", ump[2]) >>
      [] status = SND_UMP_MSG_RELATIVE_RPN ->
           << Label("relative RPN"), Chan(channel), Dec("bank", Byte3(ump)),
              Dec("index", Byte4(ump)), Hex("value", ump[2]) >>
      [] status = SND_UMP_MSG_RELATIVE_NRPN ->
           << Label("relative NRP"), Chan(channel), Dec("bank", Byte3(ump)),
              Dec("index", Byte4(ump)), Hex("value", ump[2]) >>
      [] status = SND_UMP_MSG_PER_NOTE_PITCHBEND ->
           << Label("Per-note pitchbend"), Chan(channel), Dec("note", Byte3(ump)),
              Hex("value", ump[2]) >>
      [] status = SND_UMP_MSG_NOTE_OFF ->
           << Label("Note off"), Chan(channel), Dec("note", Byte3(ump)),
              Hex("velocity", Hi16(ump)), Dec("attr type", Byte4(ump)),
              Hex("data", Lo16(ump)) >>
      [] status = SND_UMP_MSG_NOTE_ON ->
           << Label("Note on"), Chan(channel), Dec("note", Byte3(ump)),
              Hex("velocity", Hi16(ump)), Dec("attr type", Byte4(ump)),
              Hex("data", Lo16(ump)) >>
      [] status = SND_UMP_MSG_POLY_PRESSURE ->
           << Label("Poly pressure"), Chan(channel), Dec("note", Byte3(ump)),
              Hex("value", ump[2]) >>
      [] status = SND_UMP_MSG_CONTROL_CHANGE ->
           << Label("Control change"), Chan(channel), Dec("controller", Byte3(ump)),
              Hex("value", ump[2]) >>
      [] status = SND_UMP_MSG_PROGRAM_CHANGE ->
           << Label("Program change"), Chan(channel), Dec("program", W1Byte1(ump)) >>
           \o ( IF ump[1] % 2 = 1
                THEN << Dec("Bank select", W1Byte3(ump)), Dec("", W1Byte4(ump)) >>
                ELSE << >> )
      [] status = SND_UMP_MSG_CHANNEL_PRESSURE ->
           << Label("Channel pressure"), Chan(channel), Hex("value", ump[2]) >>
      [] status = SND_UMP_MSG_PITCHBEND ->
           << Label("Channel pressure"), Chan(channel), Hex("value", ump[2]) >>
      [] status = SND_UMP_MSG_PER_NOTE_MGMT ->
           << Label("Per-note management"), Chan(channel), Hex("value", Byte4(ump)) >>
      [] OTHER ->
           << Label("UMP MIDI2 event"), Dec("status", status), Hex("channel", status),
              Hex("", ump[1]) >>

\* dump_ump_midi2_event: the group, the line of the status, the newline
dump_ump_midi2_event(ump) ==
    << Group(snd_ump_msg_group(ump)) >>
    \o Midi2Body(ump, snd_ump_msg_status(ump), snd_ump_msg_channel(ump))
    \o << NL >>

\* snd_seq_ev_is_ump(ev): the event carries the UMP flag
snd_seq_ev_is_ump(ev) == ev.is_ump

\* dump_ump_event past its first test: the address, then the switch on the
\* packet's message type
UmpLine(ev) ==
    SourceAddr(ev) \o
    ( CASE snd_ump_msg_type(ev.ump) = SND_UMP_MSG_TYPE_MIDI1_CHANNEL_VOICE ->
             dump_ump_midi1_event(ev.ump)
        [] snd_ump_msg_type(ev.ump) = SND_UMP_MSG_TYPE_MIDI2_CHANNEL_VOICE ->
             dump_ump_midi2_event(ev.ump)
        [] OTHER ->
             << Label("UMP event"), Dec("type", snd_ump_msg_type(ev.ump)),
                Dec("group", snd_ump_msg_group(ev.ump)),
                Dec("status", snd_ump_msg_status(ev.ump)), Hex("", ev.ump[1]), NL >> )

\* dump_ump_event that renders every unit as a UMP packet (a mutant of
\* dump_ump_event: the snd_seq_ev_is_ump test left out)
dump_ump_event_no_fallback(ev) == UmpLine(ev)

\* dump_ump_event: a unit that is not UMP goes to dump_event
dump_ump_event(ev) ==
    IF ~snd_seq_ev_is_ump(ev) THEN dump_event(ev) ELSE UmpLine(ev)

(* ---------------- raw units ---------------- *)
\* a raw unit with every field zero: the header (source address, type, UMP
\* flag), the members of the data union dump_event reads, the UMP words
BlankEv ==
    [ is_ump |-> FALSE, client |-> 0, port |-> 0, type |-> 0,
      channel |-> 0, note |-> 0, velocity |-> 0, param |-> 0, value |-> 0,
      queue |-> 0, aclient |-> 0, aport |-> 0, dclient |-> 0, dport |-> 0,
      ext |-> << >>, ump |-> << 0, 0 >> ]

\* a legacy-shaped unit
LegacyEv(client, port, type, channel, note, velocity) ==
    [ BlankEv EXCEPT !.client = client, !.port = port, !.type = type,
                     !.channel = channel, !.note = note, !.velocity = velocity,
                     !.param = note, !.value = velocity, !.queue = channel,
                     !.aclient = client, !.aport = note, !.dclient = velocity,
                     !.dport = channel,
                     !.ext = IF type = SND_SEQ_EVENT_SYSEX /\ velocity # 0
                             THEN << 240, note, 247 >> ELSE << >> ]

\* a UMP-shaped unit: the first word packed type:4 group:4 status:4
\* channel:4 byte:8 byte:8, and a second word
UmpEv(client, port, mt, group, status, channel, b3, b4, w1) ==
    [ BlankEv EXCEPT !.is_ump = TRUE, !.client = client, !.port = port,
                     !.ump = << mt * (2^28) + group * (2^24) + status * (2^20)
                                + channel * (2^16) + b3 * 256 + b4, w1 >> ]

\* the units the source delivers to the drain loop
LegacyUnits ==
    { LegacyEv(20, 0, SND_SEQ_EVENT_NOTEON, 1, 60, 0),
      LegacyEv(0, 1, SND_SEQ_EVENT_PORT_SUBSCRIBED, 0, 0, 0) }
UmpUnits ==
    { UmpEv(20, 0, SND_UMP_MSG_TYPE_MIDI1_CHANNEL_VOICE, 3, SND_UMP_MSG_NOTE_ON, 2, 60, 100, 0),
      UmpEv(20, 0, SND_UMP_MSG_TYPE_MIDI2_CHANNEL_VOICE, 0, SND_UMP_MSG_PROGRAM_CHANGE, 5, 0, 1,
            5 * (2^24) + 2 * 256 + 1),
      UmpEv(20, 0, 0, 1, 2, 0, 0, 0, 0) }
\* with client MIDI version 0 the sequencer converts every packet to a
\* legacy event before delivery; with version 1 or 2 it delivers packets
\* and, for some events, legacy-shaped records
UnitsFor(mode) == IF mode = 0 THEN LegacyUnits ELSE LegacyUnits \cup UmpUnits

\* the units the decoders are run on, one per run of DecodeSpec
DecodeLegacy ==
    { LegacyEv(c, p, t, ch, n, v) :
        c \in {0, 20}, p \in {0, 1},
        t \in { 5, SND_SEQ_EVENT_NOTEON, SND_SEQ_EVENT_NOTEOFF, SND_SEQ_EVENT_KEYPRESS,
                SND_SEQ_EVENT_CONTROLLER, SND_SEQ_EVENT_PGMCHANGE, SND_SEQ_EVENT_CHANPRESS,
                SND_SEQ_EVENT_PITCHBEND, SND_SEQ_EVENT_CONTROL14, SND_SEQ_EVENT_NONREGPARAM,
                SND_SEQ_EVENT_REGPARAM, SND_SEQ_EVENT_SONGPOS, SND_SEQ_EVENT_SONGSEL,
                SND_SEQ_EVENT_QFRAME, SND_SEQ_EVENT_TIMESIGN, SND_SEQ_EVENT_KEYSIGN,
                SND_SEQ_EVENT_START, SND_SEQ_EVENT_CONTINUE, SND_SEQ_EVENT_STOP,
                SND_SEQ_EVENT_SETPOS_TICK, SND_SEQ_EVENT_SETPOS_TIME, SND_SEQ_EVENT_TEMPO,
                SND_SEQ_EVENT_CLOCK, SND_SEQ_EVENT_TICK, SND_SEQ_EVENT_QUEUE_SKEW,
                SND_SEQ_EVENT_TUNE_REQUEST, SND_SEQ_EVENT_RESET, SND_SEQ_EVENT_SENSING,
                SND_SEQ_EVENT_CLIENT_START, SND_SEQ_EVENT_CLIENT_EXIT,
                SND_SEQ_EVENT_CLIENT_CHANGE, SND_SEQ_EVENT_PORT_START,
                SND_SEQ_EVENT_PORT_EXIT, SND_SEQ_EVENT_PORT_CHANGE,
                SND_SEQ_EVENT_PORT_SUBSCRIBED, SND_SEQ_EVENT_PORT_UNSUBSCRIBED,
                SND_SEQ_EVENT_SYSEX },
        ch \in {0, 9, 15}, n \in {0, 60, 127}, v \in {0, 1, 100} }
DecodeUmp ==
    { UmpEv(20, 0, mt, g, st, ch, b3, b4, w1) :
        mt \in {0, SND_UMP_MSG_TYPE_MIDI1_CHANNEL_VOICE, SND_UMP_MSG_TYPE_MIDI2_CHANNEL_VOICE, 5},
        g \in {0, 3}, st \in 0..15, ch \in {0, 2, 7, 15},
        b3 \in {0, 7}, b4 \in {1, 64}, w1 \in {0, 5 * (2^24) + 2 * 256 + 1} }
DecodeUnitsFor(mode) == IF mode = 0 THEN DecodeLegacy ELSE DecodeLegacy \cup DecodeUmp

(* ---------------- the program's state ---------------- *)
VARIABLES
    ump_version,   \* the -u option: 0 legacy, 1 or 2 UMP
    stop,          \* the flag sighandler sets
    pc,            \* where main is: "arm" "poll" "pull" "flush" "check" "close" "done"
    err,           \* what the last input call returned: "none" "unit" "EAGAIN" "hard"
    out,           \* the event lines printed to stdout, in order
    flushed,       \* how many of them fflush has written out
    pending,       \* the units the sequencer holds for this client
    fault,         \* the sequencer will fail the next input call
    intr,          \* a signal was delivered while main was blocked in poll
    arrived,       \* units delivered to the client so far
    nfaults,       \* hard errors raised so far
    got,           \* the units the input call returned since poll returned
    cycleStart,    \* Len(out) when poll returned
    nflush,        \* calls of fflush since poll returned
    hardSeen       \* an input call has returned a hard error

vars == << ump_version, stop, pc, err, out, flushed, pending, fault, intr,
           arrived, nfaults, got, cycleStart, nflush, hardSeen >>

\* the loop's states as the design names them
Waiting == pc \in {"arm", "poll"}
Draining == pc \in {"pull", "flush", "check"}
Terminated == pc \in {"close", "done"}

\* stdout after one more printed line; the record of lines is kept up to
\* MaxUnits entries
Printed(o, e) == IF Len(o) < MaxUnits THEN Append(o, e) ELSE o

\* the units pulled since poll returned, kept up to MaxUnits entries
Pulled(g, e) == IF Len(g) < MaxUnits THEN Append(g, e) ELSE g

\* the state when main reaches the for (;;) of line 608
Init ==
    /\ ump_version \in {0, 1, 2}
    /\ stop = FALSE
    /\ pc = "arm"
    /\ err = "none"
    /\ out = << >>
    /\ flushed = 0
    /\ pending = << >>
    /\ fault = FALSE
    /\ intr = FALSE
    /\ arrived = 0
    /\ nfaults = 0
    /\ got = << >>
    /\ cycleStart = 0
    /\ nflush = 0
    /\ hardSeen = FALSE

(* ---------------- the environment ---------------- *)
\* SIGINT or SIGTERM: the handler sets stop; a poll in progress fails
sighandler ==
    /\ pc # "done"
    /\ stop' = TRUE
    /\ intr' = (intr \/ pc = "poll")
    /\ UNCHANGED << ump_version, pc, err, out, flushed, pending, fault,
                    arrived, nfaults, got, cycleStart, nflush, hardSeen >>

\* a subscribed port sends a unit
Arrive ==
    /\ pc # "done"
    /\ arrived < MaxUnits
    /\ Len(pending) < MaxPending
    /\ \E u \in UnitsFor(ump_version) : pending' = Append(pending, u)
    /\ arrived' = arrived + 1
    /\ UNCHANGED << ump_version, stop, pc, err, out, flushed, fault, intr,
                    nfaults, got, cycleStart, nflush, hardSeen >>

\* the unit of a source that sends MIDI clock without end: a legacy clock
\* event, or in a UMP mode the system real-time packet (type 1, status
\* byte F8)
ClockUnit(mode) ==
    IF mode = 0 THEN LegacyEv(20, 0, SND_SEQ_EVENT_CLOCK, 0, 0, 0)
    ELSE UmpEv(20, 0, 1, 0, 15, 8, 0, 0, 0)

\* a source that never runs dry: a unit arrives whatever has arrived before
Replenish ==
    /\ pc # "done"
    /\ Len(pending) < MaxPending
    /\ pending' = Append(pending, ClockUnit(ump_version))
    /\ UNCHANGED << ump_version, stop, pc, err, out, flushed, fault, intr,
                    arrived, nfaults, got, cycleStart, nflush, hardSeen >>

\* the sequencer gets into a state in which the next input call fails
\* with an error other than -EAGAIN (-ENOSPC after an overrun, say)
Fault ==
    /\ pc # "done"
    /\ ~fault
    /\ nfaults < MaxFaults
    /\ fault' = TRUE
    /\ nfaults' = nfaults + 1
    /\ UNCHANGED << ump_version, stop, pc, err, out, flushed, pending, intr,
                    arrived, got, cycleStart, nflush, hardSeen >>

(* ---------------- main: the loop of lines 608-635, and line 637 ---------------- *)
\* line 609: snd_seq_poll_descriptors; poll has not been entered yet
PollDescriptors ==
    /\ pc = "arm"
    /\ pc' = "poll"
    /\ UNCHANGED << ump_version, stop, err, out, flushed, pending, fault, intr,
                    arrived, nfaults, got, cycleStart, nflush, hardSeen >>

\* line 610: poll returns because the sequencer is readable
PollReady ==
    /\ pc = "poll"
    /\ pending # << >> \/ fault
    /\ pc' = "pull"
    /\ intr' = FALSE
    /\ got' = << >>
    /\ cycleStart' = Len(out)
    /\ nflush' = 0
    /\ UNCHANGED << ump_version, stop, err, out, flushed, pending, fault,
                    arrived, nfaults, hardSeen >>

\* lines 610-611: poll fails with EINTR, main leaves the loop
PollInterrupted ==
    /\ pc = "poll"
    /\ intr
    /\ pc' = "close"
    /\ intr' = FALSE
    /\ UNCHANGED << ump_version, stop, err, out, flushed, pending, fault,
                    arrived, nfaults, got, cycleStart, nflush, hardSeen >>

\* a loop that calls the input function a second time before it dumps, so
\* that of two waiting units only the second is printed (a mutant of
\* InputEvent)
InputEventReadsTwice ==
    /\ pc = "pull"
    /\ ~fault
    /\ pending # << >>
    /\ LET two == Len(pending) >= 2
           ev == IF two THEN pending[2] ELSE pending[1]
           line == IF ump_version > 0 THEN dump_ump_event(ev) ELSE dump_event(ev)
       IN /\ out' = Printed(out, [unit |-> ev, mode |-> ump_version, text |-> line])
          /\ got' = IF two THEN Pulled(Pulled(got, pending[1]), ev) ELSE Pulled(got, ev)
          /\ pending' = IF two THEN Tail(Tail(pending)) ELSE Tail(pending)
    /\ err' = "unit"
    /\ UNCHANGED << ump_version, stop, pc, flushed, fault, intr, arrived,
                    nfaults, cycleStart, nflush, hardSeen >>

\* lines 616-622 and 626-630: the input call returns a unit, which is
\* dumped by the decoder of the mode; the inner loop goes round (a call
\* that succeeds sets the event pointer, so the if (event) test passes)
InputEvent ==
    /\ pc = "pull"
    /\ ~fault
    /\ pending # << >>
    /\ LET ev == Head(pending)
           line == IF ump_version > 0 THEN dump_ump_event(ev) ELSE dump_event(ev)
       IN /\ out' = Printed(out, [unit |-> ev, mode |-> ump_version, text |-> line])
          /\ got' = Pulled(got, ev)
    /\ pending' = Tail(pending)
    /\ err' = "unit"
    /\ UNCHANGED << ump_version, stop, pc, flushed, fault, intr, arrived,
                    nfaults, cycleStart, nflush, hardSeen >>

\* lines 618-619 and 627-628: nothing to read, err = -EAGAIN, break
InputWouldBlock ==
    /\ pc = "pull"
    /\ ~fault
    /\ pending = << >>
    /\ err' = "EAGAIN"
    /\ pc' = "flush"
    /\ UNCHANGED << ump_version, stop, out, flushed, pending, fault, intr,
                    arrived, nfaults, got, cycleStart, nflush, hardSeen >>

\* lines 618-619 and 627-628: err < 0 and not -EAGAIN, the same break
InputError ==
    /\ pc = "pull"
    /\ fault
    /\ fault' = FALSE
    /\ err' = "hard"
    /\ hardSeen' = TRUE
    /\ pc' = "flush"
    /\ UNCHANGED << ump_version, stop, out, flushed, pending, intr,
                    arrived, nfaults, got, cycleStart, nflush >>

\* a loop that goes on to the stop test without writing stdout out (a
\* mutant of Flush)
FlushLeftOut ==
    /\ pc = "flush"
    /\ pc' = "check"
    /\ UNCHANGED << ump_version, stop, err, out, flushed, pending, fault, intr,
                    arrived, nfaults, got, cycleStart, nflush, hardSeen >>

\* line 632: fflush(stdout)
Flush ==
    /\ pc = "flush"
    /\ flushed' = Len(out)
    /\ nflush' = nflush + 1
    /\ pc' = "check"
    /\ UNCHANGED << ump_version, stop, err, out, pending, fault, intr,
                    arrived, nfaults, got, cycleStart, hardSeen >>

\* lines 633-634: if (stop) break; otherwise round the outer loop
CheckStop ==
    /\ pc = "check"
    /\ pc' = IF stop THEN "close" ELSE "arm"
    /\ UNCHANGED << ump_version, stop, err, out, flushed, pending, fault, intr,
                    arrived, nfaults, got, cycleStart, nflush, hardSeen >>

\* line 637: snd_seq_close(seq)
Close ==
    /\ pc = "close"
    /\ pc' = "done"
    /\ UNCHANGED << ump_version, stop, err, out, flushed, pending, fault, intr,
                    arrived, nfaults, got, cycleStart, nflush, hardSeen >>

\* the steps main takes
Program ==
    \/ PollDescriptors
    \/ PollReady
    \/ PollInterrupted
    \/ InputEvent
    \/ InputWouldBlock
    \/ InputError
    \/ Flush
    \/ CheckStop
    \/ Close

Next == Program \/ sighandler \/ Arrive \/ Fault

\* the program with a source that delivers MaxUnits units at most
Spec == Init /\ [][Next]_vars

\* the same, the process being scheduled whenever it can take a step;
\* nothing obliges the environment to send a unit or a signal
FairSpec == Spec /\ WF_vars(Program)

\* the program with a source that may deliver units for ever
NextFlood == Program \/ sighandler \/ Replenish \/ Fault
FloodSpec == Init /\ [][NextFlood]_vars /\ WF_vars(Program)

\* one unit from the wide set, already waiting in the sequencer
InitDecode ==
    /\ ump_version \in {0, 1, 2}
    /\ stop = FALSE
    /\ pc = "arm"
    /\ err = "none"
    /\ out = << >>
    /\ flushed = 0
    /\ \E u \in DecodeUnitsFor(ump_version) : pending = << u >>
    /\ fault = FALSE
    /\ intr = FALSE
    /\ arrived = 1
    /\ nfaults = 0
    /\ got = << >>
    /\ cycleStart = 0
    /\ nflush = 0
    /\ hardSeen = FALSE

NextDecode ==
    \/ PollDescriptors
    \/ PollReady
    \/ PollInterrupted
    \/ InputEvent
    \/ InputWouldBlock
    \/ Flush
    \/ CheckStop
    \/ Close
    \/ sighandler

\* the decoders run on one unit each
DecodeSpec == InitDecode /\ [][NextDecode]_vars

(* ---------------- the claims ---------------- *)
\* the lines printed since poll returned
CycleLines == SubSeq(out, cycleStart + 1, Len(out))
\* how many tokens of kind k a line has
RECURSIVE CountKind(_, _)
CountKind(t, k) ==
    IF t = << >> THEN 0
    ELSE (IF Head(t).k = k THEN 1 ELSE 0) + CountKind(Tail(t), k)
\* a line: one newline, at its end
OneLine(t) == t # << >> /\ t[Len(t)] = NL /\ CountKind(t, "nl") = 1

\* C1: once an input call has failed with a hard error (a negative result
\* other than would-block), main does not wait in poll and does not call
\* the input function again: it is on its way out of the loop (the flush,
\* the stop test) or out of it, whatever the value of stop.
C1_HardErrorTerminates ==
    hardSeen => pc \in {"flush", "check", "close", "done"}

\* C2: with a source whose drain cycles all end in would-block, a signal
\* that sets stop, wherever main is when it arrives, leads to the loop
\* being left and the sequencer handle closed, with no further unit needed.
C2_CancelTerminates == stop ~> (pc = "done")

\* C3: if stop is set while main is in the inner loop, main leaves the outer
\* loop eventually, even if the source has a unit for every input call.
C3_CancelDuringDrain == (stop /\ pc = "pull") ~> Terminated

\* C4: in a drain cycle the lines printed are the renderings, by the decoder
\* of the mode, of the units pulled, one line per unit and in the order
\* pulled; nothing is flushed while units are pulled, and when the cycle is
\* over and until poll returns again stdout has been flushed exactly once,
\* after the last line.
C4_DrainCycleOrder ==
    /\ Draining =>
         /\ Len(CycleLines) = Len(got)
         /\ \A i \in 1..Len(got) :
              /\ CycleLines[i].text =
                   (IF ump_version > 0 THEN dump_ump_event(got[i]) ELSE dump_event(got[i]))
              /\ OneLine(CycleLines[i].text)
    /\ pc \in {"pull", "flush"} => nflush = 0
    /\ pc = "check" => nflush = 1 /\ flushed = Len(out)
    /\ (Waiting /\ err # "none") => nflush = 1 /\ flushed = Len(out)

\* C4 witness: a cycle in a UMP mode that pulled a packet and then a
\* legacy-shaped unit, ended in would-block and has flushed
C4_Witness ==
    /\ pc = "check" /\ err = "EAGAIN" /\ ump_version > 0
    /\ Len(got) = 2 /\ got[1].is_ump /\ ~got[2].is_ump
    /\ cycleStart > 0

\* C5: while main waits in poll, and once it has left the loop, every line
\* printed has been flushed: no line is printed between the last fflush and
\* the close of the sequencer handle.
C5_FlushedBeforeRelease ==
    (Waiting \/ Terminated) => flushed = Len(out)

\* C5 witness: the handle is closed after a signal, with lines printed
C5_Witness == pc = "done" /\ stop /\ Len(out) >= 2

\* C6: every line is the rendering of its unit by the decoder the mode and
\* the unit's shape select: dump_event in legacy mode; in a UMP mode the
\* packet decoder for a UMP-shaped unit and dump_event for any other; the
\* mode at each dispatch is the mode the loop started with.
C6_DispatchPerUnit ==
    \A i \in DOMAIN out :
        /\ out[i].mode = ump_version
        /\ out[i].text =
             ( IF out[i].mode = 0 THEN dump_event(out[i].unit)
               ELSE IF out[i].unit.is_ump THEN UmpLine(out[i].unit)
               ELSE dump_event(out[i].unit) )

\* C6 witness: in a UMP mode a packet, a legacy-shaped unit and a packet
\* again have been dumped
C6_Witness ==
    /\ ump_version = 1 /\ Len(out) = 3
    /\ out[1].unit.is_ump /\ ~out[2].unit.is_ump /\ out[3].unit.is_ump

\* C7: in a UMP mode every line has the group segment right after the
\* source address and before the kind label; in legacy mode no line has one.
C7_GroupSegment ==
    \A i \in DOMAIN out :
        LET t == out[i].text
        IN IF ump_version # 0
           THEN Len(t) >= 4 /\ t[3].k = "group" /\ t[4].k = "label"
           ELSE \A j \in DOMAIN t : t[j].k # "group"

\* the status codes the two channel-voice decoders have a case for
RecognisedStatus(mt) ==
    IF mt = SND_UMP_MSG_TYPE_MIDI1_CHANNEL_VOICE
    THEN SND_UMP_MSG_NOTE_OFF .. SND_UMP_MSG_PITCHBEND
    ELSE (SND_UMP_MSG_PER_NOTE_RCC .. SND_UMP_MSG_PER_NOTE_PITCHBEND)
         \cup (SND_UMP_MSG_NOTE_OFF .. SND_UMP_MSG_PER_NOTE_MGMT)
\* a line printed for a UMP-shaped unit by the UMP dispatch
IsUmpEntry(e) == e.mode # 0 /\ e.unit.is_ump
ChannelVoice(e) ==
    snd_ump_msg_type(e.unit.ump) \in
        {SND_UMP_MSG_TYPE_MIDI1_CHANNEL_VOICE, SND_UMP_MSG_TYPE_MIDI2_CHANNEL_VOICE}

\* C8: a gen-1 or gen-2 channel-voice packet whose status has no case, and
\* whose status differs from its channel, is printed as one line that shows
\* the packet's status, the packet's channel and the first word in hex.
C8_UnknownStatusFallback ==
    \A i \in DOMAIN out :
        LET e == out[i]
            t == e.text
            st == snd_ump_msg_status(e.unit.ump)
            ch == snd_ump_msg_channel(e.unit.ump)
        IN ( /\ IsUmpEntry(e) /\ ChannelVoice(e)
             /\ st \notin RecognisedStatus(snd_ump_msg_type(e.unit.ump))
             /\ st # ch )
           => /\ OneLine(t)
              /\ \E j \in DOMAIN t : t[j].s = "status" /\ t[j].n = st
              /\ \E j \in DOMAIN t : t[j].s = "channel" /\ t[j].n = ch
              /\ \E j \in DOMAIN t : t[j] = Hex("", e.unit.ump[1])

\* a line printed by the legacy decoder
IsLegacyEntry(e) == e.mode = 0 \/ ~e.unit.is_ump

\* C9: a legacy note-on with velocity 0 is printed as Note off with its
\* channel and note and no velocity; with a velocity above 0 as Note on with
\* channel, note and that velocity.
C9_NoteOnVelocityZero ==
    \A i \in DOMAIN out :
        LET u == out[i].unit
        IN (IsLegacyEntry(out[i]) /\ u.type = SND_SEQ_EVENT_NOTEON)
           => out[i].text =
                << Tok("client", "", u.client), Tok("port", "", u.port) >> \o
                ( IF u.velocity = 0
                  THEN << Label("Note off"), Chan(u.channel), Dec("note", u.note), NL >>
                  ELSE << Label("Note on"), Chan(u.channel), Dec("note", u.note),
                          Dec("velocity", u.velocity), NL >> )

\* C9 witness: a legacy note-on with velocity 0, on a channel and with a
\* note other than 0, has been dumped
C9_Witness ==
    \E i \in DOMAIN out :
        /\ IsLegacyEntry(out[i])
        /\ out[i].unit.type = SND_SEQ_EVENT_NOTEON
        /\ out[i].unit.velocity = 0
        /\ out[i].unit.channel = 9 /\ out[i].unit.note = 127

\* the kind label of a gen-1 status and the number of fields after the channel
Midi1Label(st) ==
    CASE st = SND_UMP_MSG_NOTE_OFF -> "Note off"
      [] st = SND_UMP_MSG_NOTE_ON -> "Note on"
      [] st = SND_UMP_MSG_POLY_PRESSURE -> "Poly pressure"
      [] st = SND_UMP_MSG_CONTROL_CHANGE -> "Control change"
      [] st = SND_UMP_MSG_PROGRAM_CHANGE -> "Program change"
      [] st = SND_UMP_MSG_CHANNEL_PRESSURE -> "Channel pressure"
      [] OTHER -> "Pitchbend"
Midi1Fields(st) ==
    IF st \in { SND_UMP_MSG_NOTE_OFF, SND_UMP_MSG_NOTE_ON, SND_UMP_MSG_POLY_PRESSURE,
                SND_UMP_MSG_CONTROL_CHANGE }
    THEN 2 ELSE 1

\* C10: a gen-1 channel-voice packet with a recognised status is printed
\* with one kind label, that of its status, then the channel and the fields
\* of that status and nothing else; a program change shows the label, the
\* channel and the program.
C10_Midi1OneLabel ==
    \A i \in DOMAIN out :
        LET e == out[i]
            t == e.text
            st == snd_ump_msg_status(e.unit.ump)
        IN ( /\ IsUmpEntry(e)
             /\ snd_ump_msg_type(e.unit.ump) = SND_UMP_MSG_TYPE_MIDI1_CHANNEL_VOICE
             /\ st \in RecognisedStatus(SND_UMP_MSG_TYPE_MIDI1_CHANNEL_VOICE) )
           => /\ CountKind(t, "label") = 1
              /\ t[4] = Label(Midi1Label(st))
              /\ t[5] = Chan(snd_ump_msg_channel(e.unit.ump))
              /\ Len(t) = 6 + Midi1Fields(st)
              /\ st = SND_UMP_MSG_PROGRAM_CHANGE => t[6] = Dec("program", Byte3(e.unit.ump))

\* the packet with its status nibble replaced
WithStatus(ump, st) ==
    << ump[1] - snd_ump_msg_status(ump) * (2^20) + st * (2^20), ump[2] >>

\* C11: a gen-2 channel-voice packet with a recognised status is printed
\* with a kind label that the decoder gives to no other recognised status:
\* the same packet under any other recognised status code gets another
\* label (so the per-note messages differ pairwise, and channel pitch-bend
\* differs from channel pressure).
C11_Midi2DistinctLabels ==
    \A i \in DOMAIN out :
        LET e == out[i]
            st == snd_ump_msg_status(e.unit.ump)
            known == RecognisedStatus(SND_UMP_MSG_TYPE_MIDI2_CHANNEL_VOICE)
        IN ( /\ IsUmpEntry(e)
             /\ snd_ump_msg_type(e.unit.ump) = SND_UMP_MSG_TYPE_MIDI2_CHANNEL_VOICE
             /\ st \in known )
           => /\ e.text[4].k = "label"
              /\ \A st2 \in known \ {st} :
                   e.text[4] # dump_ump_midi2_event(WithStatus(e.unit.ump, st2))[2]

====
